---- MODULE Spec2Model ----
(***************************************************************************)
(* Model of the domino match engine (server/gameEngine.ts) and of the      *)
(* socket handlers that drive it (server/socket.ts).                       *)
(*                                                                         *)
(* The engine's methods are operators over a record `e` holding the fields *)
(* of GameEngine (gameState, lastWinnerId, timer) and returning the record *)
(* after the call; the actions apply them to the variables.                *)
(***************************************************************************)
EXTENDS Integers, Sequences, FiniteSets, TLC

VARIABLES
    board,          \* gameState.board: sequence of oriented pieces <<a, b>>
    hands,          \* players[i].hand, i = index in gameState.players
    ids,            \* players[i].id (socket id)
    pos,            \* players[i].position; the team follows from it
    score,          \* players[i].score
    cur,            \* gameState.currentTurnPlayerId
    passes,         \* gameState.consecutivePasses
    handNumber,     \* gameState.handNumber
    teamScores,     \* gameState.teamScores
    handWinnerId,   \* gameState.handWinnerId
    winReason,      \* gameState.winReason
    handPoints,     \* gameState.handPoints
    winnerTeam,     \* gameState.winnerTeam
    lastWinnerId,   \* GameEngine.lastWinnerId
    timer,          \* GameEngine.timer: handle of the last armed timeout
    pending,        \* timeouts scheduled by startTurnTimer and not yet fired
    lastPlacer,     \* history: index of the player of the last accepted
                    \* placePiece of the hand, -1 before the first
    timerIsLatest,  \* history: the engine's pending timeout was armed after
                    \* the pending timeout of the replaced engine
    status,         \* room.status
    engine,         \* room.engine and room.gameState are set
    hostId,         \* room.hostId
    connected,      \* socket ids of the open connections
    disconnected,   \* room.disconnectedPlayers (keys)
    grace,          \* pending 2-minute forfeit timeouts: captured socket id and player
    roomPlayers,    \* the players still in room.players (a new array after leaveRoom)
    nextSocket,     \* the id the next connection gets
    readyPlayers,   \* room.readyPlayers
    nextHandTimer,  \* room.nextHandTimer: handle of the last 15-second timeout
    readyTimers,    \* 15-second timeouts of player_ready not yet fired
    replaced,       \* the engine a later start_game took out of room.engine
    rooms,          \* RoomManager.rooms, in insertion order
    matchmakingQueue, \* RoomManager.matchmakingQueue (keys), in insertion order
    online,         \* io.sockets.sockets (keys)
    checks,         \* live checkInterval timers of startAutoFill, per room id
    forfeits,       \* pending 2-minute timeouts: room id and socket id
    nextRoomId      \* the id the next room gets

engineVars == <<board, hands, score, cur, passes, handNumber, teamScores,
                handWinnerId, winReason, handPoints, winnerTeam,
                lastWinnerId, timer, pending, lastPlacer, timerIsLatest>>
roomVars == <<ids, pos, status, engine, hostId, connected, disconnected, grace,
              roomPlayers, nextSocket>>
\* The next-hand round of the room and the engine start_game replaced
sessionVars == <<readyPlayers, nextHandTimer, readyTimers, replaced>>
\* The room directory. SpecLobby follows it and abstracts the match of a room
\* to the fact that its engine exists; the other specifications follow the
\* match of one room and leave the directory alone.
lobbyVars == <<rooms, matchmakingQueue, online, checks, forfeits, nextRoomId>>
vars == <<board, hands, ids, pos, score, cur, passes, handNumber, teamScores,
          handWinnerId, winReason, handPoints, winnerTeam, lastWinnerId,
          timer, pending, status, engine, hostId, connected, disconnected,
          grace, roomPlayers, nextSocket,
          rooms, matchmakingQueue, online, checks, forfeits, nextRoomId, lastPlacer,
          timerIsLatest, readyPlayers, nextHandTimer, readyTimers, replaced>>

-----------------------------------------------------------------------------
(* Bounds *)

NumShuffles == 1         \* outcomes of the shuffle that are played
NumDeals == 6            \* outcomes of the shuffle that are dealt
MaxHands == 2            \* hands dealt in a match
MaxLaterPlacements == 1  \* tiles placed in a hand after the first
MaxPasses == 5           \* value of consecutivePasses
MaxSockets == 5          \* socket ids handed out
MaxRoomBoard == 3        \* tiles placed in a room whose players drop and return
MaxMatchHands == 9       \* hands of a match played to its end
MaxTeamScore == 260      \* team score up to which a match is followed

(* Program constants *)

MaxPip == 6
HandSize == 7
NumPlayers == 4
TargetScore == 200
PaseRedondoLimit == 170
Bonus == 30

Seats == 0..(NumPlayers - 1)
NoId == 0           \* '' / undefined player id
NoTimer == -1       \* timer === null
NoPoints == -1      \* handPoints === undefined
\* No engine was replaced: nothing of it is pending
NoEngine == [board |-> <<>>, pending |-> <<>>]
Sides == {"head", "tail"}
Pips == 0..MaxPip
RawPieces == Pips \X Pips
D6 == <<6, 6>>

\* The team joinRoom gives to a position
TeamOfPosition(position) == IF position = 0 \/ position = 2 THEN "A" ELSE "B"

-----------------------------------------------------------------------------
(* Deck *)

RECURSIVE DeckFrom(_)
DeckFrom(i) ==
    IF i > MaxPip THEN <<>>
    ELSE [k \in 1..(MaxPip - i + 1) |-> <<i, i + k - 1>>] \o DeckFrom(i + 1)

GenerateDeck == DeckFrom(0)

Swap(deck, i, j) == [deck EXCEPT ![i + 1] = deck[j + 1], ![j + 1] = deck[i + 1]]

\* rnd[i] is the value of Math.floor(Math.random() * (i + 1)) drawn at index i
RECURSIVE ShuffleFrom(_, _, _)
ShuffleFrom(deck, i, rnd) ==
    IF i <= 0 THEN deck
    ELSE ShuffleFrom(Swap(deck, i, rnd[i]), i - 1, rnd)

ShuffleDeck(deck, rnd) == ShuffleFrom(deck, Len(deck) - 1, rnd)

\* Faulty variant: every player is dealt the top of the deck
DealTop(deck) == [i \in Seats |-> {deck[k] : k \in 1..HandSize}]

\* deck.splice(0, 7) for each player in order
Deal(deck) ==
    [i \in Seats |->
        {deck[k] : k \in {n \in 1..Len(deck) :
                            n > HandSize * i /\ n <= HandSize * (i + 1)}}]

RECURSIVE SumHand(_)
SumHand(h) ==
    IF h = {} THEN 0
    ELSE LET p == CHOOSE q \in h : TRUE
         IN p[1] + p[2] + SumHand(h \ {p})

-----------------------------------------------------------------------------
(* The engine record: the fields of one GameEngine and of its players *)

Eng == [board |-> board, hands |-> hands, ids |-> ids, pos |-> pos, score |-> score,
        cur |-> cur, passes |-> passes, handNumber |-> handNumber,
        teamScores |-> teamScores, handWinnerId |-> handWinnerId,
        winReason |-> winReason, handPoints |-> handPoints,
        winnerTeam |-> winnerTeam, lastWinnerId |-> lastWinnerId,
        timer |-> timer, pending |-> pending]

\* players[i].team
PlayerTeam(e, i) == TeamOfPosition(e.pos[i])

\* players.findIndex(p => p.id === id): -1 when no player has that id
IndexOfId(e, id) ==
    IF \E i \in Seats : e.ids[i] = id
    THEN CHOOSE i \in Seats : e.ids[i] = id /\ \A j \in Seats : e.ids[j] = id => i <= j
    ELSE -1

GetCurrentPlayer(e) == IndexOfId(e, e.cur)

HasTile(h, raw) == <<raw[1], raw[2]>> \in h \/ <<raw[2], raw[1]>> \in h
HeldTile(h, raw) == IF <<raw[1], raw[2]>> \in h THEN <<raw[1], raw[2]>>
                    ELSE <<raw[2], raw[1]>>

GetOpenEnds(e) ==
    IF Len(e.board) = 0 THEN <<-1, -1>>
    ELSE <<e.board[1][1], e.board[Len(e.board)][2]>>

IsValidMove(e, piece, side) ==
    LET ends == GetOpenEnds(e)
        head == ends[1]
        tail == ends[2]
    IN IF head = -1
       THEN IF e.handNumber = 1 THEN piece[1] = 6 /\ piece[2] = 6 ELSE TRUE
       ELSE IF side = "head"
            THEN piece[1] = head \/ piece[2] = head
            ELSE piece[1] = tail \/ piece[2] = tail

\* clearTimeout(handle): removes the timeout the handle names, if still pending
RECURSIVE RemoveLast(_, _)
RemoveLast(q, h) ==
    IF q = <<>> THEN <<>>
    ELSE IF q[Len(q)] = h THEN SubSeq(q, 1, Len(q) - 1)
         ELSE Append(RemoveLast(SubSeq(q, 1, Len(q) - 1), h), q[Len(q)])

ClearTimeout(q, h) == IF h = NoTimer THEN q ELSE RemoveLast(q, h)

\* Faulty variant: the timer is armed without clearing the one before
StartTurnTimerNoClear(e) ==
    [e EXCEPT !.pending = Append(e.pending, e.cur), !.timer = e.cur]

StartTurnTimer(e) ==
    [e EXCEPT !.pending = Append(ClearTimeout(e.pending, e.timer), e.cur),
              !.timer = e.cur]

\* Faulty variant: only the head end is searched
FindHeadMoves(e, i) ==
    LET head == GetOpenEnds(e)[1]
    IN IF head = -1
       THEN IF e.handNumber = 1
            THEN IF D6 \in e.hands[i] THEN {[piece |-> D6, side |-> "head"]} ELSE {}
            ELSE {[piece |-> p, side |-> "head"] : p \in e.hands[i]}
       ELSE {[piece |-> p, side |-> "head"] :
                p \in {q \in e.hands[i] : q[1] = head \/ q[2] = head}}

\* The moves findAnyValidMove can return for player i (empty: it returns null)
FindAnyValidMove(e, i) ==
    LET ends == GetOpenEnds(e)
        head == ends[1]
        tail == ends[2]
    IN IF head = -1
       THEN IF e.handNumber = 1
            THEN IF D6 \in e.hands[i] THEN {[piece |-> D6, side |-> "head"]} ELSE {}
            ELSE {[piece |-> p, side |-> "head"] : p \in e.hands[i]}
       ELSE {[piece |-> p, side |-> "head"] :
                p \in {q \in e.hands[i] : q[1] = head \/ q[2] = head}}
            \cup
            {[piece |-> p, side |-> "tail"] :
                p \in {q \in e.hands[i] : q[1] = tail \/ q[2] = tail}}

\* Faulty variant: the turn goes to the partner
NextTurnSkip(e) ==
    IF e.winnerTeam # "none" THEN e
    ELSE LET currentIdx == IndexOfId(e, e.cur)
             nextIdx == (currentIdx + 2) % NumPlayers
         IN StartTurnTimer([e EXCEPT !.cur = e.ids[nextIdx]])

NextTurn(e) ==
    IF e.winnerTeam # "none" THEN e
    ELSE LET currentIdx == IndexOfId(e, e.cur)
             nextIdx == (currentIdx + 1) % NumPlayers
             moved == [e EXCEPT !.cur = e.ids[nextIdx]]
         IN \* players[currentIdx].name throws when currentIdx is -1,
            \* after the assignment and before startTurnTimer
            IF currentIdx = -1 THEN moved ELSE StartTurnTimer(moved)

\* Faulty variant: the target score does not end the match
HandleWinNoMatchEnd(e, w, type, isCapicua) ==
    LET totalTable == SumHand(e.hands[0]) + SumHand(e.hands[1])
                      + SumHand(e.hands[2]) + SumHand(e.hands[3])
        capicua == type = "domino" /\ isCapicua
        pointsToAdd == totalTable + (IF capicua THEN Bonus ELSE 0)
        team == PlayerTeam(e, w)
    IN [e EXCEPT !.handWinnerId = e.ids[w],
                 !.winReason = IF capicua THEN "capicua" ELSE type,
                 !.teamScores = [e.teamScores EXCEPT ![team] = @ + pointsToAdd],
                 !.handPoints = pointsToAdd,
                 !.score = [e.score EXCEPT ![w] = @ + pointsToAdd],
                 !.lastWinnerId = e.ids[w],
                 !.handNumber = e.handNumber + 1,
                 !.pending = ClearTimeout(e.pending, e.timer),
                 !.timer = NoTimer]

\* Faulty variant: the pieces left in the winning team's hands are not counted
HandleWinOtherTeam(e, w, type, isCapicua) ==
    LET team == PlayerTeam(e, w)
        others == {j \in Seats : PlayerTeam(e, j) # team}
        jA == CHOOSE j \in others : TRUE
        jB == CHOOSE j \in others : j # jA
        capicua == type = "domino" /\ isCapicua
        pointsToAdd == SumHand(e.hands[jA]) + SumHand(e.hands[jB])
                       + (IF capicua THEN Bonus ELSE 0)
        teamScore == e.teamScores[team] + pointsToAdd
        matchWon == teamScore >= TargetScore
    IN [e EXCEPT !.handWinnerId = e.ids[w],
                 !.winReason = IF capicua THEN "capicua" ELSE type,
                 !.teamScores = [e.teamScores EXCEPT ![team] = teamScore],
                 !.handPoints = pointsToAdd,
                 !.score = [e.score EXCEPT ![w] = @ + pointsToAdd],
                 !.winnerTeam = IF matchWon THEN team ELSE e.winnerTeam,
                 !.lastWinnerId = IF matchWon THEN e.lastWinnerId ELSE e.ids[w],
                 !.handNumber = IF matchWon THEN e.handNumber ELSE e.handNumber + 1,
                 !.pending = ClearTimeout(e.pending, e.timer),
                 !.timer = NoTimer]

HandleWin(e, w, type, isCapicua) ==
    LET totalTable == SumHand(e.hands[0]) + SumHand(e.hands[1])
                      + SumHand(e.hands[2]) + SumHand(e.hands[3])
        capicua == type = "domino" /\ isCapicua
        bonus == IF capicua THEN Bonus ELSE 0
        pointsToAdd == totalTable + bonus
        team == PlayerTeam(e, w)
        teamScore == e.teamScores[team] + pointsToAdd
        matchWon == teamScore >= TargetScore
    IN [e EXCEPT !.handWinnerId = e.ids[w],
                 !.winReason = IF capicua THEN "capicua" ELSE type,
                 !.teamScores = [e.teamScores EXCEPT ![team] = teamScore],
                 !.handPoints = pointsToAdd,
                 !.score = [e.score EXCEPT ![w] = @ + pointsToAdd],
                 !.winnerTeam = IF matchWon THEN team ELSE e.winnerTeam,
                 !.lastWinnerId = IF matchWon THEN e.lastWinnerId ELSE e.ids[w],
                 !.handNumber = IF matchWon THEN e.handNumber ELSE e.handNumber + 1,
                 !.pending = ClearTimeout(e.pending, e.timer),
                 !.timer = NoTimer]

\* Faulty variant: the fourth pass only moves the turn on
HandleTranqueAdvance(e) == NextTurn(e)

\* Faulty variant: the blocker wins a tie
HandleTranqueTieToBlocker(e) ==
    LET cleared == [e EXCEPT !.pending = ClearTimeout(e.pending, e.timer)]
        currentIdx == IndexOfId(e, e.cur)
        trancadorIdx == (currentIdx - 4 + NumPlayers) % NumPlayers
        opponentIdx == (trancadorIdx + 1) % NumPlayers
        scoreA == SumHand(e.hands[trancadorIdx])
        scoreB == SumHand(e.hands[opponentIdx])
        winner == IF scoreA <= scoreB THEN trancadorIdx ELSE opponentIdx
    IN HandleWin(cleared, winner, "tranque", FALSE)

HandleTranque(e) ==
    LET cleared == [e EXCEPT !.pending = ClearTimeout(e.pending, e.timer)]
        currentIdx == IndexOfId(e, e.cur)
        trancadorIdx == (currentIdx - 4 + NumPlayers) % NumPlayers
        opponentIdx == (trancadorIdx + 1) % NumPlayers
        scoreA == SumHand(e.hands[trancadorIdx])
        scoreB == SumHand(e.hands[opponentIdx])
        winner == IF scoreA < scoreB THEN trancadorIdx ELSE opponentIdx
    IN HandleWin(cleared, winner, "tranque", FALSE)

\* Faulty variant: the requested side is kept
RequestedSide(piece, head, tail, side) == side

\* Rule of right end priority (Doble Punta): a piece matching both ends goes to the tail
EffectiveSide(piece, head, tail, side) ==
    LET matchesHead == piece[1] = head \/ piece[2] = head
        matchesTail == piece[1] = tail \/ piece[2] = tail
    IN IF matchesHead /\ matchesTail THEN "tail" ELSE side

\* Faulty variant: a piece that does not connect is laid as it is
OrientAnyway(piece, head, tail, side) ==
    IF side = "head"
    THEN IF piece[1] = head THEN <<piece[2], piece[1]>> ELSE piece
    ELSE IF piece[2] = tail THEN <<piece[2], piece[1]>> ELSE piece

\* Faulty variant: a piece is never turned round
OrientNoFlip(piece, head, tail, side) ==
    IF side = "head"
    THEN IF piece[2] = head THEN piece ELSE <<>>
    ELSE IF piece[1] = tail THEN piece ELSE <<>>

\* The piece as it is laid at the given end; <<>> when it does not connect
Orient(piece, head, tail, side) ==
    IF side = "head"
    THEN IF piece[2] = head THEN piece
         ELSE IF piece[1] = head THEN <<piece[2], piece[1]>>
         ELSE <<>>
    ELSE IF piece[1] = tail THEN piece
         ELSE IF piece[2] = tail THEN <<piece[2], piece[1]>>
         ELSE <<>>

\* Faulty variant: the piece is always pushed
InsertAtTail(b, placed, side) == Append(b, placed)

\* board.unshift / board.push
Insert(b, placed, side) ==
    IF side = "head" THEN <<placed>> \o b ELSE Append(b, placed)

\* Faulty variant: a double counts as well
CapicuaWithDoubles(piece, head, tail) ==
    head # -1 /\
       (\/ (piece[1] = head /\ piece[2] = tail)
        \/ (piece[2] = head /\ piece[1] = tail)
        \/ head = tail)

IsCapicua(piece, head, tail) ==
    LET isDouble == piece[1] = piece[2]
    IN ~isDouble /\ head # -1 /\
       (\/ (piece[1] = head /\ piece[2] = tail)
        \/ (piece[2] = head /\ piece[1] = tail)
        \/ head = tail)

\* Faulty variant: no first piece enforcement
AnyFirstPiece(e, i, piece) == FALSE

\* First piece enforcement on the empty board
FirstPieceRejected(e, i, piece) ==
    e.handNumber = 1 /\ D6 \in e.hands[i] /\ (piece[1] # 6 \/ piece[2] # 6)

\* Faulty variant: the piece stays in the hand
KeepInHand(e, i, piece) == [e EXCEPT !.passes = 0]

\* player.hand.splice(pieceIdx, 1); consecutivePasses = 0
TakeFromHand(e, i, piece) ==
    [e EXCEPT !.hands[i] = @ \ {piece}, !.passes = 0]

\* placePiece(playerId, rawPiece, side): the returned boolean and the engine after
PlacePiece(e, playerId, raw, side) ==
    LET i == IndexOfId(e, playerId)
        reject == [ok |-> FALSE, e |-> e]
    IN IF playerId # e.cur THEN reject
       ELSE IF i = -1 THEN reject
       ELSE IF ~HasTile(e.hands[i], raw) THEN reject
       ELSE
        LET piece == HeldTile(e.hands[i], raw)
        IN IF Len(e.board) = 0
           THEN IF FirstPieceRejected(e, i, piece) THEN reject
                ELSE LET laid == TakeFromHand([e EXCEPT !.board = Append(@, piece)],
                                              i, piece)
                     IN [ok |-> TRUE,
                         e |-> IF laid.hands[i] = {}
                               THEN HandleWin(laid, i, "domino", FALSE)
                               ELSE NextTurn(laid)]
           ELSE LET ends == GetOpenEnds(e)
                    head == ends[1]
                    tail == ends[2]
                    s == EffectiveSide(piece, head, tail, side)
                    placedPiece == Orient(piece, head, tail, s)
                IN IF placedPiece = <<>> THEN reject
                   ELSE LET laid == TakeFromHand(
                                       [e EXCEPT !.board = Insert(@, placedPiece, s)],
                                       i, piece)
                        IN [ok |-> TRUE,
                            e |-> IF laid.hands[i] = {}
                                  THEN HandleWin(laid, i, "domino",
                                                 IsCapicua(piece, head, tail))
                                  ELSE NextTurn(laid)]

\* Sum of p.score over the players of a team
TeamPlayersScore(e, team) ==
    LET TeamSeats == {j \in Seats : PlayerTeam(e, j) = team}
        f[S \in SUBSET Seats] ==
            IF S = {} THEN 0
            ELSE LET j == CHOOSE k \in S : TRUE IN e.score[j] + f[S \ {j}]
    IN f[TeamSeats]

\* The pase redondo branch of passTurn, taken when consecutivePasses is 3 and
\* the current player has a valid move
PaseRedondo(e, i) ==
    IF TeamPlayersScore(e, PlayerTeam(e, i)) >= PaseRedondoLimit
    THEN StartTurnTimer([e EXCEPT !.passes = 0])
    ELSE StartTurnTimer(
            [e EXCEPT !.score = [j \in Seats |->
                                    IF PlayerTeam(e, j) = PlayerTeam(e, i)
                                    THEN e.score[j] + Bonus
                                    ELSE e.score[j]],
                      !.passes = 0])

\* passTurn(playerId): ok tells whether the pass was taken
PassTurn(e, playerId) ==
    LET i == GetCurrentPlayer(e)
    IN IF playerId # e.cur THEN [ok |-> FALSE, e |-> e]
       ELSE IF i # -1 /\ FindAnyValidMove(e, i) # {} THEN [ok |-> FALSE, e |-> e]
       ELSE LET inc == [e EXCEPT !.passes = @ + 1]
            IN [ok |-> TRUE,
                e |-> IF inc.passes = 3 /\ i # -1 /\ FindAnyValidMove(inc, i) # {}
                      THEN PaseRedondo(inc, i)
                      ELSE IF inc.passes = 4 THEN HandleTranque(inc)
                      ELSE NextTurn(inc)]

\* Faulty variant: the timeout always passes
HandleTimeoutPasses(e) ==
    LET i == GetCurrentPlayer(e)
    IN IF e.winnerTeam # "none" THEN {e}
       ELSE IF i = -1 THEN {e}
       ELSE {PassTurn(e, e.ids[i]).e}

\* handleTimeout(): the engines it can leave (the move is picked at random)
HandleTimeout(e) ==
    LET i == GetCurrentPlayer(e)
    IN IF e.winnerTeam # "none" THEN {e}
       ELSE IF i = -1 THEN {e}
       ELSE IF FindAnyValidMove(e, i) # {}
            THEN {PlacePiece(e, e.ids[i], m.piece, m.side).e :
                    m \in FindAnyValidMove(e, i)}
            ELSE {PassTurn(e, e.ids[i]).e}

\* The setTimeout callback of startTurnTimer, for the oldest pending timeout
TimerCallback(e) ==
    LET currentPlayerId == Head(e.pending)
        fired == [e EXCEPT !.pending = Tail(@)]
    IN IF fired.cur = currentPlayerId THEN HandleTimeout(fired) ELSE {fired}

\* players.find(p => p.hand.some(b => b is the piece)): -1 when none
FirstHolder(h, piece) ==
    IF \E i \in Seats : piece \in h[i]
    THEN CHOOSE i \in Seats : piece \in h[i] /\ \A j \in Seats : piece \in h[j] => i <= j
    ELSE -1

RECURSIVE HighestDoubleHolder(_, _)
HighestDoubleHolder(h, d) ==
    IF d < 0 THEN -1
    ELSE IF FirstHolder(h, <<d, d>>) # -1 THEN FirstHolder(h, <<d, d>>)
    ELSE HighestDoubleHolder(h, d - 1)

\* Faulty variant: players[0] always starts
FirstSeatStarts(h) == 0

\* First hand: the double six starts, else the highest double, else players[0]
FirstHandStarter(h) ==
    IF FirstHolder(h, D6) # -1 THEN FirstHolder(h, D6)
    ELSE IF HighestDoubleHolder(h, 5) # -1 THEN HighestDoubleHolder(h, 5)
    ELSE 0

\* Next hands: the previous winner starts, or players[0] when it is not found
LaterHandStarter(e) ==
    IF e.lastWinnerId # NoId /\ IndexOfId(e, e.lastWinnerId) # -1
    THEN e.lastWinnerId
    ELSE e.ids[0]

\* startHand(), deck being what shuffleDeck(generateDeck()) returned
StartHand(e, deck) ==
    LET dealt == Deal(deck)
        starter == IF e.handNumber = 1 THEN e.ids[FirstHandStarter(dealt)]
                   ELSE LaterHandStarter(e)
    IN StartTurnTimer([e EXCEPT !.board = <<>>,
                                !.passes = 0,
                                !.handWinnerId = NoId,
                                !.winReason = "none",
                                !.hands = dealt,
                                !.cur = starter])

-----------------------------------------------------------------------------
(* Outcomes of Math.random() in shuffleDeck: RandomDraws[k][i] is the index j
   drawn from 0..i at loop index i; the first NumShuffles are explored *)

RandomDraws ==
    << <<1, 1, 2, 1, 2, 6, 2, 1, 9, 8, 11, 6, 9, 8, 14, 10, 10, 11, 18, 6, 6,
         9, 18, 21, 24, 26, 27>>,
       <<0, 2, 0, 0, 2, 5, 2, 6, 8, 9, 4, 11, 9, 0, 4, 7, 11, 9, 11, 16, 5, 9,
         11, 16, 18, 25, 26>> >>

\* The decks shuffleDeck(generateDeck()) returns for those draws
ShuffledDecks == {ShuffleDeck(GenerateDeck, RandomDraws[k]) : k \in 1..NumShuffles}

-----------------------------------------------------------------------------
(* State *)

\* The operation that left engine e armed a timeout: startHand, an accepted
\* placePiece or passTurn that did not resolve the hand
Armed(e) ==
    /\ e.pending # <<>>
    /\ \/ e.pending # pending \/ e.board # board \/ e.passes # passes
       \/ e.hands # hands \/ e.handWinnerId # handWinnerId

SetEng(e) ==
    /\ board' = e.board
    /\ hands' = e.hands
    /\ score' = e.score
    /\ cur' = e.cur
    /\ passes' = e.passes
    /\ handNumber' = e.handNumber
    /\ teamScores' = e.teamScores
    /\ handWinnerId' = e.handWinnerId
    /\ winReason' = e.winReason
    /\ handPoints' = e.handPoints
    /\ winnerTeam' = e.winnerTeam
    /\ lastWinnerId' = e.lastWinnerId
    /\ timer' = e.timer
    /\ pending' = e.pending
    /\ lastPlacer' = IF e.board = <<>> THEN -1
                     ELSE IF Len(e.board) = Len(board) + 1
                     THEN IndexOfId(Eng, cur)
                     ELSE lastPlacer
    /\ timerIsLatest' = IF Armed(e) THEN TRUE ELSE timerIsLatest

\* The position joinRoom gives to the player joining as the joinOrder-th
JoinPosition(joinOrder) ==
    IF joinOrder = 0 THEN 0
    ELSE IF joinOrder = 1 THEN 2
    ELSE IF joinOrder = 2 THEN 1
    ELSE IF joinOrder = 3 THEN 3
    ELSE 0

\* A room after createRoom and three joinRoom: four players in join order,
\* no engine yet
InitMatch ==
    /\ ids = [i \in Seats |-> i + 1]
    /\ pos = [i \in Seats |-> JoinPosition(i)]
    /\ hands = [i \in Seats |-> {}]
    /\ score = [i \in Seats |-> 0]
    /\ status = "waiting"
    /\ engine = FALSE
    /\ hostId = ids[0]
    /\ connected = {i + 1 : i \in Seats}
    /\ disconnected = {}
    /\ grace = <<>>
    /\ roomPlayers = Seats
    /\ nextSocket = NumPlayers + 1
    /\ board = <<>>
    /\ cur = NoId
    /\ passes = 0
    /\ handNumber = 1
    /\ teamScores = [t \in {"A", "B"} |-> 0]
    /\ handWinnerId = NoId
    /\ winReason = "none"
    /\ handPoints = NoPoints
    /\ winnerTeam = "none"
    /\ lastWinnerId = NoId
    /\ timer = NoTimer
    /\ pending = <<>>
    /\ lastPlacer = -1
    /\ timerIsLatest = TRUE
    /\ readyPlayers = {}
    /\ nextHandTimer = NoTimer
    /\ readyTimers = <<>>
    /\ replaced = NoEngine

\* The room with its four players; the directory is not followed
Init ==
    /\ InitMatch
    /\ rooms = <<>>
    /\ matchmakingQueue = <<>>
    /\ online = {}
    /\ checks = [r \in {} |-> 0]
    /\ forfeits = <<>>
    /\ nextRoomId = 1

-----------------------------------------------------------------------------
(* Game start *)

\* room.players.sort((a, b) => a.position - b.position): the index in the
\* unsorted array of the player that lands at index i
SortedIndex(p, i) ==
    CHOOSE j \in Seats :
        Cardinality({k \in Seats : p[k] < p[j] \/ (p[k] = p[j] /\ k < j)}) = i

SortByPosition(p, f) == [i \in Seats |-> f[SortedIndex(p, i)]]

\* new GameEngine(players, config, onStateChange)
NewEngine(playerIds, playerPos, playerHands, playerScore) ==
    [board |-> <<>>, hands |-> playerHands, ids |-> playerIds,
     pos |-> playerPos, score |-> playerScore, cur |-> NoId, passes |-> 0,
     handNumber |-> 1, teamScores |-> [t \in {"A", "B"} |-> 0],
     handWinnerId |-> NoId, winReason |-> "none", handPoints |-> NoPoints,
     winnerTeam |-> "none", lastWinnerId |-> NoId, timer |-> NoTimer,
     pending |-> <<>>]

\* The engine start_game creates on the sorted players
FreshEngine ==
    NewEngine(SortByPosition(pos, ids), SortByPosition(pos, pos),
              SortByPosition(pos, hands), SortByPosition(pos, score))

\* start_game handler, the first time the host of the room sends it: sorts the
\* players, creates the engine, starts the first hand
StartGame ==
    /\ ~engine
    /\ hostId \in connected
    /\ Cardinality(roomPlayers) >= NumPlayers
    /\ ids' = SortByPosition(pos, ids)
    /\ pos' = SortByPosition(pos, pos)
    /\ \E deck \in ShuffledDecks : SetEng(StartHand(FreshEngine, deck))
    /\ engine' = TRUE
    /\ status' = "playing"
    /\ UNCHANGED <<hostId, connected, disconnected, grace, roomPlayers, nextSocket>>
    /\ UNCHANGED <<sessionVars, lobbyVars>>

-----------------------------------------------------------------------------
(* Engine operations *)

\* Bound of the exploration: the first hand is played without limit, the later
\* ones up to MaxLaterPlacements pieces
InScope ==
    (handNumber > 1 /\ handWinnerId = NoId) => Len(board) < MaxLaterPlacements

\* startNextHand, run when all the players are ready or the next-hand timer
\* expires: engine.startHand()
StartNextHand ==
    /\ engine
    /\ handNumber <= MaxHands
    /\ \E deck \in ShuffledDecks : SetEng(StartHand(Eng, deck))
    /\ UNCHANGED <<roomVars, sessionVars, lobbyVars>>

\* What a client can send in place_piece: its socket id, a piece, a side
PlaceInputs == connected \X RawPieces \X Sides

\* What placePiece returns and leaves, over all the events a client can send
PlaceResults ==
    LET e == Eng IN {PlacePiece(e, in[1], in[2], in[3]) : in \in PlaceInputs}

\* place_piece handler: engine.placePiece(socket.id, data.piece, data.side);
\* 'game_update' to the room when it returns true, 'error' to the sender
\* when it returns false
DoPlacePiece ==
    /\ engine
    /\ InScope
    /\ \E r \in PlaceResults : SetEng(r.e)
    /\ UNCHANGED <<roomVars, sessionVars, lobbyVars>>

\* pass_turn handler: engine.passTurn(socket.id)
DoPassTurn ==
    /\ engine
    /\ InScope
    /\ passes < MaxPasses
    /\ \E id \in connected : SetEng(PassTurn(Eng, id).e)
    /\ UNCHANGED <<roomVars, sessionVars, lobbyVars>>

\* Expiry of the oldest pending turn timeout
TimerExpiry ==
    /\ pending # <<>>
    /\ replaced.pending = <<>> \/ ~timerIsLatest
    /\ InScope
    /\ passes < MaxPasses
    /\ \E e2 \in TimerCallback(Eng) : SetEng(e2)
    /\ UNCHANGED <<roomVars, sessionVars, lobbyVars>>

-----------------------------------------------------------------------------
(* Connections *)

\* room.players.find(p => p.id === id): -1 when the room has no such player
RoomPlayerOfId(id) ==
    IF \E i \in roomPlayers : ids[i] = id
    THEN CHOOSE i \in roomPlayers :
            ids[i] = id /\ \A j \in roomPlayers : ids[j] = id => i <= j
    ELSE -1

\* room.players[0]?.id || '' for the players that stay
FirstPlayerId(staying) ==
    IF staying = {} THEN NoId
    ELSE ids[CHOOSE i \in staying : \A j \in staying : i <= j]

\* roomManager.leaveRoom(roomId, playerId)
LeaveRoom(playerId) ==
    LET staying == {i \in roomPlayers : ids[i] # playerId}
    IN /\ roomPlayers' = staying
       /\ hostId' = IF staying # {} /\ hostId = playerId
                    THEN FirstPlayerId(staying) ELSE hostId

\* disconnect handler of the connection with socket id s
Disconnect(s) ==
    /\ s \in connected
    /\ connected' = connected \ {s}
    /\ IF RoomPlayerOfId(s) # -1 /\ status = "playing"
       THEN /\ disconnected' = disconnected \cup {s}
            /\ grace' = Append(grace, [id |-> s, player |-> RoomPlayerOfId(s)])
            /\ UNCHANGED <<roomPlayers, hostId>>
       ELSE IF RoomPlayerOfId(s) # -1
            THEN /\ LeaveRoom(s)
                 /\ UNCHANGED <<disconnected, grace>>
            ELSE UNCHANGED <<disconnected, grace, roomPlayers, hostId>>
    /\ UNCHANGED <<ids, pos, status, engine, nextSocket>>
    /\ UNCHANGED <<engineVars, sessionVars, lobbyVars>>

\* Faulty variant: the entry of the reconnection table is kept
ReconnectKeepsEntry(i) ==
    /\ nextSocket <= MaxSockets
    /\ i \in roomPlayers
    /\ ids[i] \in disconnected
    /\ ids' = [ids EXCEPT ![i] = nextSocket]
    /\ connected' = connected \cup {nextSocket}
    /\ nextSocket' = nextSocket + 1
    /\ UNCHANGED <<pos, status, engine, hostId, grace, roomPlayers, disconnected>>
    /\ UNCHANGED <<engineVars, sessionVars, lobbyVars>>

\* join_room handler on a new connection, with the name of the disconnected
\* player i: the reconnection branch
Reconnect(i) ==
    /\ nextSocket <= MaxSockets
    /\ i \in roomPlayers
    /\ ids[i] \in disconnected
    /\ ids' = [ids EXCEPT ![i] = nextSocket]
    /\ disconnected' = disconnected \ {ids[i]}
    /\ connected' = connected \cup {nextSocket}
    /\ nextSocket' = nextSocket + 1
    /\ UNCHANGED <<pos, status, engine, hostId, grace, roomPlayers>>
    /\ UNCHANGED <<engineVars, sessionVars, lobbyVars>>

\* Faulty variant: the forfeit goes to the team of the player who dropped
GraceExpiryOwnTeam ==
    /\ grace # <<>>
    /\ grace' = Tail(grace)
    /\ IF Head(grace).id \in disconnected
       THEN /\ status' = "finished"
            /\ winnerTeam' = IF engine
                             THEN TeamOfPosition(pos[Head(grace).player])
                             ELSE winnerTeam
            /\ disconnected' = disconnected \ {Head(grace).id}
            /\ LeaveRoom(Head(grace).id)
       ELSE UNCHANGED <<status, winnerTeam, disconnected, roomPlayers, hostId>>
    /\ UNCHANGED <<ids, pos, engine, connected, nextSocket>>
    /\ UNCHANGED <<sessionVars, lobbyVars>>
    /\ UNCHANGED <<board, hands, score, cur, passes, handNumber, teamScores,
                   handWinnerId, winReason, handPoints, lastWinnerId, timer,
                   pending, lastPlacer, timerIsLatest>>

\* Expiry of the oldest pending 2-minute timeout of the disconnect handler
GraceExpiry ==
    /\ grace # <<>>
    /\ grace' = Tail(grace)
    /\ IF Head(grace).id \in disconnected
       THEN /\ status' = "finished"
            /\ winnerTeam' = IF engine
                             THEN IF TeamOfPosition(pos[Head(grace).player]) = "A"
                                  THEN "B" ELSE "A"
                             ELSE winnerTeam
            /\ disconnected' = disconnected \ {Head(grace).id}
            /\ LeaveRoom(Head(grace).id)
       ELSE UNCHANGED <<status, winnerTeam, disconnected, roomPlayers, hostId>>
    /\ UNCHANGED <<ids, pos, engine, connected, nextSocket>>
    /\ UNCHANGED <<sessionVars, lobbyVars>>
    /\ UNCHANGED <<board, hands, score, cur, passes, handNumber, teamScores,
                   handWinnerId, winReason, handPoints, lastWinnerId, timer,
                   pending, lastPlacer, timerIsLatest>>

-----------------------------------------------------------------------------
(* Specifications *)

\* A match whose players stay connected
Next == StartGame \/ StartNextHand \/ DoPlacePiece \/ DoPassTurn \/ TimerExpiry

Spec == Init /\ [][Next]_vars

\* A match whose players drop and return; bound of the exploration: the hands
\* are played up to MaxRoomBoard pieces
RoomScope == Len(board) < MaxRoomBoard

NextRoom ==
    \/ StartGame
    \/ StartNextHand
    \/ RoomScope /\ DoPlacePiece
    \/ RoomScope /\ DoPassTurn
    \/ RoomScope /\ TimerExpiry
    \/ \E s \in connected : Disconnect(s)
    \/ \E i \in Seats : Reconnect(i)
    \/ GraceExpiry

SpecRoom == Init /\ [][NextRoom]_vars

\* A whole match, hand after hand, played by clients that answer before the
\* turn timer expires: the current player sends the first of its legal moves
\* (lowest piece, head before tail) or a pass. Bounds of the exploration: the
\* hands up to MaxMatchHands, the team scores up to MaxTeamScore.
MoveRank(m) ==
    2 * ((MaxPip + 1) * m.piece[1] + m.piece[2]) + (IF m.side = "head" THEN 0 ELSE 1)

ClientMove(e, i) ==
    CHOOSE m \in FindAnyValidMove(e, i) :
        \A n \in FindAnyValidMove(e, i) : MoveRank(m) <= MoveRank(n)

MatchScope ==
    /\ engine
    /\ teamScores["A"] < MaxTeamScore /\ teamScores["B"] < MaxTeamScore

\* place_piece handler, sent by the current player with its first legal move
ClientPlaces ==
    /\ MatchScope
    /\ GetCurrentPlayer(Eng) # -1
    /\ FindAnyValidMove(Eng, GetCurrentPlayer(Eng)) # {}
    /\ LET m == ClientMove(Eng, GetCurrentPlayer(Eng))
       IN SetEng(PlacePiece(Eng, cur, m.piece, m.side).e)
    /\ UNCHANGED <<roomVars, sessionVars, lobbyVars>>

\* pass_turn handler, sent by the current player
ClientPasses ==
    /\ MatchScope
    /\ passes < MaxPasses
    /\ SetEng(PassTurn(Eng, cur).e)
    /\ UNCHANGED <<roomVars, sessionVars, lobbyVars>>

\* startNextHand: engine.startHand()
StartHandOfMatch ==
    /\ MatchScope
    /\ handNumber <= MaxMatchHands
    /\ \E deck \in ShuffledDecks : SetEng(StartHand(Eng, deck))
    /\ UNCHANGED <<roomVars, sessionVars, lobbyVars>>

NextMatch ==
    \/ StartGame
    \/ StartHandOfMatch
    \/ ClientPlaces
    \/ ClientPasses

SpecMatch == Init /\ [][NextMatch]_vars

\* Hands played once each by connected clients, restarted after they are
\* resolved, in a room whose players drop and return. Bound of the
\* exploration: the hands before hand MaxHands.
RejoinScope == handWinnerId = NoId /\ handNumber < MaxHands /\ cur \in connected

NextRejoin ==
    \/ StartGame
    \/ handWinnerId # NoId /\ StartHandOfMatch
    \/ RejoinScope /\ ClientPlaces
    \/ RejoinScope /\ ClientPasses
    \/ \E s \in connected : Disconnect(s)
    \/ \E i \in Seats : Reconnect(i)
    \/ GraceExpiry

SpecRejoin == Init /\ [][NextRejoin]_vars

-----------------------------------------------------------------------------
(* Next-hand round and repeated start_game *)

\* 15-second timeouts of one room followed at a time
MaxReadyTimers == 2

\* setTimeout(): a handle that names none of the pending timeouts
FreshHandle(q) ==
    CHOOSE h \in 1..(Len(q) + 1) : \A k \in 1..Len(q) : q[k] # h

\* startNextHand(room, io, manager), timers being the 15-second timeouts
\* pending when it is called and handle being room.nextHandTimer
startNextHand(timers, handle) ==
    IF ~engine
    THEN /\ readyTimers' = timers
         /\ nextHandTimer' = handle
         /\ UNCHANGED <<readyPlayers, engineVars>>
    ELSE /\ readyPlayers' = {}
         /\ readyTimers' = ClearTimeout(timers, handle)
         /\ nextHandTimer' = NoTimer
         /\ \E deck \in ShuffledDecks : SetEng(StartHand(Eng, deck))

\* player_ready handler of the connection with socket id s
PlayerReady(s) ==
    /\ engine
    /\ s \in connected
    /\ handNumber <= MaxHands
    /\ LET ready == readyPlayers \cup {s}
           first == Cardinality(ready) = 1
           all == Cardinality(ready) = Cardinality(roomPlayers)
           h == FreshHandle(readyTimers)
           started == IF first THEN Append(readyTimers, h) ELSE readyTimers
           handle == IF first THEN h ELSE nextHandTimer
       IN /\ first => Len(readyTimers) < MaxReadyTimers
          /\ IF all
             THEN startNextHand(ClearTimeout(started, handle), NoTimer)
             ELSE /\ readyPlayers' = ready
                  /\ readyTimers' = started
                  /\ nextHandTimer' = handle
                  /\ UNCHANGED engineVars
    /\ UNCHANGED <<replaced, roomVars, lobbyVars>>

\* Expiry of the oldest pending 15-second timeout of player_ready
ReadyTimerExpiry ==
    /\ readyTimers # <<>>
    /\ handNumber <= MaxHands
    /\ startNextHand(Tail(readyTimers), nextHandTimer)
    /\ UNCHANGED <<replaced, roomVars, lobbyVars>>

\* The engine without the hands and scores: they are fields of the player
\* objects of room.players, which every engine of the room reads and writes
Detach(e) ==
    [e EXCEPT !.hands = [i \in Seats |-> {}], !.score = [i \in Seats |-> 0]]

\* The engine with the hands and scores the player objects hold
Attach(e) == [e EXCEPT !.hands = hands, !.score = score]

\* start_game handler, sent by the host of a room that has an engine: a new
\* engine on the same players takes the place of room.engine
StartGameAgain ==
    /\ engine
    /\ replaced = NoEngine
    /\ hostId \in connected
    /\ Cardinality(roomPlayers) >= NumPlayers
    /\ ids' = SortByPosition(pos, ids)
    /\ pos' = SortByPosition(pos, pos)
    /\ replaced' = Detach(Eng)
    /\ \E deck \in ShuffledDecks : SetEng(StartHand(FreshEngine, deck))
    /\ engine' = TRUE
    /\ status' = "playing"
    /\ UNCHANGED <<hostId, connected, disconnected, grace, roomPlayers, nextSocket>>
    /\ UNCHANGED <<readyPlayers, nextHandTimer, readyTimers>>
    /\ UNCHANGED lobbyVars

\* Expiry of the pending turn timeout of the replaced engine
ReplacedTimerExpiry ==
    /\ replaced.pending # <<>>
    /\ pending = <<>> \/ timerIsLatest
    /\ \E e2 \in TimerCallback(Attach(replaced)) :
          /\ hands' = e2.hands
          /\ score' = e2.score
          /\ replaced' = Detach(e2)
          /\ timerIsLatest' = IF e2.pending # <<>> THEN FALSE ELSE timerIsLatest
    /\ UNCHANGED <<board, cur, passes, handNumber, teamScores, handWinnerId,
                   winReason, handPoints, winnerTeam, lastWinnerId, timer,
                   pending, lastPlacer>>
    /\ UNCHANGED <<readyPlayers, nextHandTimer, readyTimers>>
    /\ UNCHANGED <<roomVars, lobbyVars>>

\* A room whose players stay connected, with its next-hand rounds and a
\* start_game sent again; the hands are played up to MaxRoomBoard pieces
NextSession ==
    \/ StartGame
    \/ StartGameAgain
    \/ \E s \in connected : PlayerReady(s)
    \/ ReadyTimerExpiry
    \/ RoomScope /\ DoPlacePiece
    \/ RoomScope /\ DoPassTurn
    \/ RoomScope /\ TimerExpiry
    \/ Len(replaced.board) < MaxRoomBoard /\ ReplacedTimerExpiry

SpecSession == Init /\ [][NextSession]_vars

-----------------------------------------------------------------------------
(* Room directory: RoomManager and the lobby handlers *)

\* Sockets that connect to the server
MaxClients == 5
\* Rooms created in a behaviour
MaxRooms == 2
\* Rooms created in a behaviour of SpecLobby
MaxLobbyRooms == 1
\* Sockets that send requests in a behaviour of SpecTwoRooms
MaxPairClients == 3
\* Live checkInterval timers of one room
MaxChecks == 1

\* findMatch found no room
NoRoom == 0

Clients == 1..MaxClients
RoomIds == 1..MaxRooms

\* this.rooms.get(roomId): the index of the room in the directory, 0 if none
GetRoom(rs, roomId) ==
    IF \E k \in 1..Len(rs) : rs[k].id = roomId
    THEN CHOOSE k \in 1..Len(rs) : rs[k].id = roomId
    ELSE 0

\* room.players.some(p => p.id === playerId)
IsPlayer(room, playerId) ==
    \E j \in 1..Len(room.players) : room.players[j].id = playerId

\* createRoom: the room with the host at position 0
createRoom(rs, roomId, hostId_, isPrivate) ==
    Append(rs, [id |-> roomId, hostId |-> hostId_,
                players |-> <<[id |-> hostId_, position |-> 0]>>,
                status |-> "waiting", isPrivate |-> isPrivate,
                invitedPlayers |-> {}, engine |-> FALSE,
                winnerTeam |-> "none", disconnectedPlayers |-> {},
                late |-> FALSE])

\* Faulty variant: a full room takes one more player
joinRoomWhenFull(rs, roomId, playerId, isInvited) ==
    LET k == GetRoom(rs, roomId)
    IN IF k = 0 THEN [ok |-> FALSE, rooms |-> rs]
       ELSE IF rs[k].status # "waiting" /\ rs[k].status # "matchmaking"
       THEN [ok |-> FALSE, rooms |-> rs]
       ELSE IF IsPlayer(rs[k], playerId) THEN [ok |-> TRUE, rooms |-> rs]
       ELSE [ok |-> TRUE,
             rooms |-> [rs EXCEPT
                 ![k].players =
                     Append(@, [id |-> playerId,
                                position |-> JoinPosition(Len(@))]),
                 ![k].invitedPlayers =
                     IF isInvited THEN @ \cup {playerId} ELSE @]]

\* joinRoom: ok is FALSE when it returns null
joinRoom(rs, roomId, playerId, isInvited) ==
    LET k == GetRoom(rs, roomId)
    IN IF k = 0 THEN [ok |-> FALSE, rooms |-> rs]
       ELSE IF rs[k].status # "waiting" /\ rs[k].status # "matchmaking"
       THEN [ok |-> FALSE, rooms |-> rs]
       ELSE IF Len(rs[k].players) >= NumPlayers
       THEN [ok |-> FALSE, rooms |-> rs]
       ELSE IF IsPlayer(rs[k], playerId) THEN [ok |-> TRUE, rooms |-> rs]
       ELSE [ok |-> TRUE,
             rooms |-> [rs EXCEPT
                 ![k].players =
                     Append(@, [id |-> playerId,
                                position |-> JoinPosition(Len(@))]),
                 ![k].invitedPlayers =
                     IF isInvited THEN @ \cup {playerId} ELSE @]]

\* leaveRoom
leaveRoom(rs, roomId, playerId) ==
    LET k == GetRoom(rs, roomId)
    IN IF k = 0 THEN rs
       ELSE LET left == SelectSeq(rs[k].players, LAMBDA p : p.id # playerId)
            IN IF left = <<>>
               THEN SubSeq(rs, 1, k - 1) \o SubSeq(rs, k + 1, Len(rs))
               ELSE [rs EXCEPT
                        ![k].players = left,
                        ![k].invitedPlayers = @ \ {playerId},
                        ![k].hostId = IF @ = playerId THEN left[1].id ELSE @]

\* findMatch: the id of the first public waiting room with a free place
findMatch(rs) ==
    LET open == {k \in 1..Len(rs) : /\ ~rs[k].isPrivate
                                    /\ rs[k].status = "waiting"
                                    /\ Len(rs[k].players) < NumPlayers}
    IN IF open = {} THEN NoRoom
       ELSE rs[CHOOSE k \in open : \A l \in open : k <= l].id

\* addToMatchmaking
addToMatchmaking(q, playerId) ==
    IF \E j \in 1..Len(q) : q[j] = playerId THEN q ELSE Append(q, playerId)

\* removeFromMatchmaking
removeFromMatchmaking(q, playerId) == SelectSeq(q, LAMBDA x : x # playerId)

\* findPlayersForRoom: the first needed entries of the queue that are not
\* players of the room
findPlayersForRoom(rs, q, roomId, needed) ==
    LET k == GetRoom(rs, roomId)
        free == SelectSeq(q, LAMBDA x : ~IsPlayer(rs[k], x))
    IN IF k = 0 THEN <<>>
       ELSE IF Len(free) <= needed THEN free ELSE SubSeq(free, 1, needed)

\* startMatchmaking: ok is FALSE when it returns false
startMatchmaking(rs, roomId) ==
    LET k == GetRoom(rs, roomId)
    IN IF k = 0 THEN [ok |-> FALSE, rooms |-> rs]
       ELSE IF rs[k].isPrivate /\ rs[k].invitedPlayers = {}
       THEN [ok |-> FALSE, rooms |-> rs]
       ELSE [ok |-> TRUE,
             rooms |-> [rs EXCEPT ![k].status = "matchmaking",
                                  ![k].late = FALSE]]

\* room.players.sort((a, b) => a.position - b.position), a stable sort
SortPlayers(ps) ==
    [i \in 1..Len(ps) |->
        ps[CHOOSE j \in 1..Len(ps) :
            Cardinality({l \in 1..Len(ps) :
                \/ ps[l].position < ps[j].position
                \/ ps[l].position = ps[j].position /\ l < j}) = i - 1]]

\* The start of a game: sorted players, a new engine and game state, the first
\* hand, status playing
BeginGame(room) ==
    [room EXCEPT !.players = SortPlayers(@), !.engine = TRUE,
                 !.winnerTeam = "none", !.status = "playing"]

\* startGameAutomatically
startGameAutomatically(rs, roomId) ==
    LET k == GetRoom(rs, roomId)
    IN IF k = 0 THEN rs
       ELSE IF Len(rs[k].players) < 4 THEN rs
       ELSE [rs EXCEPT ![k] = BeginGame(@)]

\* The room directory after a server start, with MaxClients open connections
InitLobby ==
    /\ InitMatch
    /\ rooms = <<>>
    /\ matchmakingQueue = <<>>
    /\ online = Clients
    /\ checks = [r \in RoomIds |-> 0]
    /\ forfeits = <<>>
    /\ nextRoomId = 1

matchVars == <<engineVars, roomVars, sessionVars>>

\* create_room handler
CreateRoom(c, isPrivate) ==
    /\ c \in online
    /\ nextRoomId <= MaxRooms
    /\ rooms' = createRoom(rooms, nextRoomId, c, isPrivate)
    /\ nextRoomId' = nextRoomId + 1
    /\ UNCHANGED <<matchmakingQueue, online, checks, forfeits, matchVars>>

\* join_room handler with a name that is not in the reconnection table of the
\* room: the normal join
JoinRoom(c, roomId) ==
    /\ c \in online
    /\ rooms' = joinRoom(rooms, roomId, c, TRUE).rooms
    /\ UNCHANGED <<matchmakingQueue, online, checks, forfeits, nextRoomId,
                   matchVars>>

\* find_match handler
FindMatch(c) ==
    /\ c \in online
    /\ LET q == addToMatchmaking(matchmakingQueue, c)
           roomId == findMatch(rooms)
           joined == joinRoom(rooms, roomId, c, FALSE)
           k == GetRoom(joined.rooms, roomId)
       IN IF roomId = NoRoom
          THEN /\ nextRoomId <= MaxRooms
               /\ rooms' = createRoom(rooms, nextRoomId, c, FALSE)
               /\ nextRoomId' = nextRoomId + 1
               /\ matchmakingQueue' = q
          ELSE /\ UNCHANGED nextRoomId
               /\ IF joined.ok
                  THEN /\ matchmakingQueue' = removeFromMatchmaking(q, c)
                       /\ rooms' =
                            IF Len(joined.rooms[k].players) = 4
                            THEN startGameAutomatically(joined.rooms, roomId)
                            ELSE joined.rooms
                  ELSE /\ matchmakingQueue' = q
                       /\ rooms' = rooms
    /\ UNCHANGED <<online, checks, forfeits, matchVars>>

\* Faulty variant: start_game does not count the players
startGameUncounted(rs, c, roomId) ==
    LET k == GetRoom(rs, roomId)
    IN IF k = 0 THEN rs
       ELSE IF rs[k].hostId # c THEN rs
       ELSE [rs EXCEPT ![k] = BeginGame(@)]

\* The body of the start_game handler: the directory after the request of
\* socket c
startGame(rs, c, roomId) ==
    LET k == GetRoom(rs, roomId)
    IN IF k = 0 THEN rs
       ELSE IF rs[k].hostId # c THEN rs
       ELSE IF Len(rs[k].players) < 4 THEN rs
       ELSE [rs EXCEPT ![k] = BeginGame(@)]

\* start_game handler
StartGameReq(c, roomId) ==
    /\ c \in online
    /\ rooms' = startGame(rooms, c, roomId)
    /\ UNCHANGED <<matchmakingQueue, online, checks, forfeits, nextRoomId,
                   matchVars>>

\* start_matchmaking handler
StartMatchmaking(c, roomId) ==
    /\ c \in online
    /\ LET k == GetRoom(rooms, roomId)
           started == startMatchmaking(rooms, roomId)
       IN IF k = 0 THEN UNCHANGED <<rooms, checks>>
          ELSE IF rooms[k].hostId # c THEN UNCHANGED <<rooms, checks>>
          ELSE IF ~started.ok THEN UNCHANGED <<rooms, checks>>
          ELSE /\ checks[roomId] < MaxChecks
               /\ rooms' = started.rooms
               /\ checks' = [checks EXCEPT ![roomId] = @ + 1]
    /\ UNCHANGED <<matchmakingQueue, online, forfeits, nextRoomId, matchVars>>

\* available.forEach of the checkInterval callback: the directory and the
\* queue after the players of av are added
RECURSIVE AddAvailable(_, _, _, _, _)
AddAvailable(rs, q, on, roomId, av) ==
    IF av = <<>> THEN [rooms |-> rs, queue |-> q]
    ELSE LET joined == joinRoom(rs, roomId, Head(av), FALSE)
         IN IF Head(av) \in on /\ joined.ok
            THEN AddAvailable(joined.rooms, removeFromMatchmaking(q, Head(av)),
                              on, roomId, Tail(av))
            ELSE AddAvailable(rs, q, on, roomId, Tail(av))

\* Faulty variant: the check on a timeout keeps the room in matchmaking
CheckIntervalNoRevert(roomId) ==
    /\ checks[roomId] > 0
    /\ LET k == GetRoom(rooms, roomId)
       IN IF k = 0 \/ (k # 0 /\ rooms[k].status # "matchmaking")
          THEN /\ checks' = [checks EXCEPT ![roomId] = @ - 1]
               /\ UNCHANGED <<rooms, matchmakingQueue>>
          ELSE LET needed == 4 - Len(rooms[k].players)
                   available ==
                       IF needed > 0
                       THEN findPlayersForRoom(rooms, matchmakingQueue,
                                               roomId, needed)
                       ELSE <<>>
                   added == AddAvailable(rooms, matchmakingQueue, online,
                                         roomId, available)
                   currentRoom == added.rooms[k]
                   isFull == Len(currentRoom.players) = 4
               IN /\ matchmakingQueue' = added.queue
                  /\ IF isFull
                     THEN /\ checks' = [checks EXCEPT ![roomId] = @ - 1]
                          /\ rooms' = startGameAutomatically(added.rooms, roomId)
                     ELSE /\ checks' = checks
                          /\ rooms' = added.rooms
    /\ UNCHANGED <<online, forfeits, nextRoomId, matchVars>>

\* One run of the checkInterval callback of startAutoFill for the room
CheckInterval(roomId) ==
    /\ checks[roomId] > 0
    /\ LET k == GetRoom(rooms, roomId)
       IN IF k = 0 \/ (k # 0 /\ rooms[k].status # "matchmaking")
          THEN /\ checks' = [checks EXCEPT ![roomId] = @ - 1]
               /\ UNCHANGED <<rooms, matchmakingQueue>>
          ELSE LET needed == 4 - Len(rooms[k].players)
                   available ==
                       IF needed > 0
                       THEN findPlayersForRoom(rooms, matchmakingQueue,
                                               roomId, needed)
                       ELSE <<>>
                   added == AddAvailable(rooms, matchmakingQueue, online,
                                         roomId, available)
                   currentRoom == added.rooms[k]
                   isFull == Len(currentRoom.players) = 4
                   isTimeout == currentRoom.late
               IN /\ matchmakingQueue' = added.queue
                  /\ IF isFull \/ isTimeout
                     THEN /\ checks' = [checks EXCEPT ![roomId] = @ - 1]
                          /\ rooms' =
                               IF Len(currentRoom.players) >= 4
                               THEN startGameAutomatically(added.rooms, roomId)
                               ELSE [added.rooms EXCEPT ![k].status = "waiting"]
                     ELSE /\ checks' = checks
                          /\ rooms' = added.rooms
    /\ UNCHANGED <<online, forfeits, nextRoomId, matchVars>>

\* MATCHMAKING_TIMEOUT passes since room.matchmakingStartTime
TimeoutElapses(roomId) ==
    /\ GetRoom(rooms, roomId) # 0
    /\ rooms[GetRoom(rooms, roomId)].status = "matchmaking"
    /\ ~rooms[GetRoom(rooms, roomId)].late
    /\ rooms' = [rooms EXCEPT ![GetRoom(rooms, roomId)].late = TRUE]
    /\ UNCHANGED <<matchmakingQueue, online, checks, forfeits, nextRoomId,
                   matchVars>>

\* The first room of the directory the socket is a player of, 0 if none
FirstRoomOf(rs, c) ==
    LET mine == {k \in 1..Len(rs) : IsPlayer(rs[k], c)}
    IN IF mine = {} THEN 0 ELSE CHOOSE k \in mine : \A l \in mine : k <= l

\* player.team of the player with this socket id
TeamIn(room, c) ==
    TeamOfPosition(
        room.players[CHOOSE j \in 1..Len(room.players) :
                         room.players[j].id = c].position)

\* disconnect handler
LobbyDisconnect(c) ==
    /\ c \in online
    /\ online' = online \ {c}
    /\ matchmakingQueue' = removeFromMatchmaking(matchmakingQueue, c)
    /\ LET k == FirstRoomOf(rooms, c)
       IN IF k = 0 THEN UNCHANGED <<rooms, forfeits>>
          ELSE IF rooms[k].status = "playing"
          THEN /\ rooms' = [rooms EXCEPT ![k].disconnectedPlayers = @ \cup {c}]
               /\ forfeits' = Append(forfeits,
                                     [roomId |-> rooms[k].id, id |-> c,
                                      team |-> TeamIn(rooms[k], c)])
          ELSE /\ rooms' = leaveRoom(rooms, rooms[k].id, c)
               /\ UNCHANGED forfeits
    /\ UNCHANGED <<checks, nextRoomId, matchVars>>

\* Expiry of the oldest pending 2-minute timeout of the disconnect handler,
\* seen from the directory
LobbyGraceExpiry ==
    /\ forfeits # <<>>
    /\ forfeits' = Tail(forfeits)
    /\ LET h == Head(forfeits)
           k == GetRoom(rooms, h.roomId)
       IN IF k # 0 /\ h.id \in rooms[k].disconnectedPlayers
          THEN rooms' =
                 leaveRoom([rooms EXCEPT
                               ![k].status = "finished",
                               ![k].winnerTeam =
                                   IF rooms[k].engine
                                   THEN IF h.team = "A" THEN "B" ELSE "A"
                                   ELSE @,
                               ![k].disconnectedPlayers = @ \ {h.id}],
                           h.roomId, h.id)
          ELSE UNCHANGED rooms
    /\ UNCHANGED <<matchmakingQueue, online, checks, nextRoomId, matchVars>>

\* An open connection that is neither a player of a room nor in the queue
Idle(c) ==
    /\ c \in online
    /\ \A k \in 1..Len(rooms) : ~IsPlayer(rooms[k], c)
    /\ \A j \in 1..Len(matchmakingQueue) : matchmakingQueue[j] # c

\* Idle connections are interchangeable: of the idle connections, the one
\* with the lowest id sends the next request
Ordered(c) == \A d \in Clients : d < c => ~Idle(d)

\* Bound of the exploration of SpecLobby: MaxLobbyRooms rooms are created
LobbyScope == findMatch(rooms) # NoRoom \/ nextRoomId <= MaxLobbyRooms

NextLobby ==
    \/ \E c \in Clients, isPrivate \in BOOLEAN :
            Ordered(c) /\ nextRoomId <= MaxLobbyRooms /\ CreateRoom(c, isPrivate)
    \/ \E c \in Clients, roomId \in RoomIds : Ordered(c) /\ JoinRoom(c, roomId)
    \/ \E c \in Clients : Ordered(c) /\ LobbyScope /\ FindMatch(c)
    \/ \E c \in Clients, roomId \in RoomIds :
            Ordered(c) /\ StartGameReq(c, roomId)
    \/ \E c \in Clients, roomId \in RoomIds :
            Ordered(c) /\ StartMatchmaking(c, roomId)
    \/ \E roomId \in RoomIds : CheckInterval(roomId)
    \/ \E roomId \in RoomIds : TimeoutElapses(roomId)
    \/ \E c \in Clients : Ordered(c) /\ LobbyDisconnect(c)
    \/ LobbyGraceExpiry

SpecLobby == InitLobby /\ [][NextLobby]_vars

\* setInterval runs the callback of a live check every CHECK_INTERVAL, and
\* the clock reaches matchmakingStartTime + MATCHMAKING_TIMEOUT
LobbyFairness ==
    \A roomId \in RoomIds :
        /\ WF_vars(CheckInterval(roomId))
        /\ WF_vars(TimeoutElapses(roomId))

SpecLobbyFair == SpecLobby /\ LobbyFairness

\* Two rooms side by side; bound of the exploration: the requests come from
\* the first MaxPairClients sockets
PairClients == 1..MaxPairClients

NextTwoRooms ==
    \/ \E c \in PairClients, isPrivate \in BOOLEAN :
            Ordered(c) /\ CreateRoom(c, isPrivate)
    \/ \E c \in PairClients, roomId \in RoomIds :
            Ordered(c) /\ JoinRoom(c, roomId)
    \/ \E c \in PairClients : Ordered(c) /\ FindMatch(c)
    \/ \E c \in PairClients, roomId \in RoomIds :
            Ordered(c) /\ StartMatchmaking(c, roomId)
    \/ \E roomId \in RoomIds : CheckInterval(roomId)
    \/ \E roomId \in RoomIds : TimeoutElapses(roomId)
    \/ \E c \in PairClients : Ordered(c) /\ LobbyDisconnect(c)

SpecTwoRooms == InitLobby /\ [][NextTwoRooms]_vars

-----------------------------------------------------------------------------
(* Properties *)

DoubleSixSet == {t \in Pips \X Pips : t[1] <= t[2]}
Norm(p) == IF p[1] <= p[2] THEN p ELSE <<p[2], p[1]>>
TilesInHands == Cardinality(hands[0]) + Cardinality(hands[1])
                + Cardinality(hands[2]) + Cardinality(hands[3])
PlacesOf(t) == Cardinality({i \in Seats : t \in hands[i]})
               + Cardinality({k \in 1..Len(board) : Norm(board[k]) = t})
CurIdx == IndexOfId(Eng, cur)
HeadEnd == GetOpenEnds(Eng)[1]
TailEnd == GetOpenEnds(Eng)[2]
OpenEnd(side) == IF side = "head" THEN HeadEnd ELSE TailEnd
Touches(piece, v) == piece[1] = v \/ piece[2] = v

\* The engine after the step
EngNext == [board |-> board', hands |-> hands', ids |-> ids', pos |-> pos',
            score |-> score', cur |-> cur', passes |-> passes',
            handNumber |-> handNumber', teamScores |-> teamScores',
            handWinnerId |-> handWinnerId', winReason |-> winReason',
            handPoints |-> handPoints', winnerTeam |-> winnerTeam',
            lastWinnerId |-> lastWinnerId', timer |-> timer',
            pending |-> pending']

\* The engine startHand is called on: the one of the room, or a new one
EngineToStart == IF engine THEN Eng ELSE FreshEngine

\* More outcomes of the shuffle: draw k * i mod (i + 1) at loop index i
DrawFamily(k) == [i \in 1..(Len(GenerateDeck) - 1) |-> (k * i) % (i + 1)]
DealtDecks ==
    ShuffledDecks \cup {ShuffleDeck(GenerateDeck, DrawFamily(k)) : k \in 1..NumDeals}

\* C1: from the first startHand on, after every engine operation the tiles in
\* the four hands plus the tiles on the board number 28, and each tile of the
\* double-six set is in exactly one of those places.
C1_TileConservation ==
    engine =>
        /\ TilesInHands + Len(board) = 28
        /\ \A t \in DoubleSixSet : PlacesOf(t) = 1

\* C1 witness: a hand in which tiles were placed and a seat passed.
C1_Witness ==
    engine /\ Len(board) >= 4 /\ passes > 0 /\ handWinnerId = NoId

\* C2: while the room is playing and the match has no winner,
\* currentTurnPlayerId is the id of exactly one player of the engine.
C2_OneCurrentSeat ==
    (engine /\ status = "playing" /\ winnerTeam = "none") =>
        Cardinality({i \in Seats : ids[i] = cur}) = 1

\* C3: when the turn timer of the current seat expires and acts for it, any
\* later placePiece or passTurn of that seat is rejected until the turn comes
\* back to it.
C3_TimerThenClientRejected ==
    [][(/\ engine /\ handWinnerId = NoId /\ winnerTeam = "none"
        /\ pending # <<>> /\ Head(pending) = cur /\ CurIdx # -1
        /\ EngNext \in TimerCallback(Eng))
       => /\ ~PassTurn(EngNext, cur).ok
          /\ \A raw \in RawPieces, side \in Sides :
                ~PlacePiece(EngNext, cur, raw, side).ok]_vars

\* C4: placePiece returns false when the caller is not the current player, does
\* not hold the piece, holds the double six but submits another piece on the
\* empty board of hand 1, or submits a piece that does not match the requested
\* end, and in no other case; a call that returns false leaves every field of
\* the engine as it was: the board, the hands, the current player, the pass
\* counter, the team scores, the hand number and the pending timer.
C4_RejectionChangesNothing ==
    engine =>
        LET e == Eng
        IN \A id \in connected, raw \in RawPieces, side \in Sides :
            LET i == IndexOfId(e, id)
                r == PlacePiece(e, id, raw, side)
                listed ==
                    \/ id # cur
                    \/ i = -1
                    \/ ~HasTile(hands[i], raw)
                    \/ /\ board = <<>> /\ handNumber = 1
                       /\ D6 \in hands[i] /\ Norm(raw) # D6
                    \/ board # <<>> /\ ~Touches(raw, OpenEnd(side))
            IN /\ listed <=> ~r.ok
               /\ ~r.ok => r.e = e

\* C4 witness: the current player holds a piece that matches neither end while
\* the board is not empty and the hand is not resolved.
C4_Witness ==
    /\ engine /\ board # <<>> /\ CurIdx # -1 /\ handWinnerId = NoId
    /\ \E piece \in hands[CurIdx] :
          ~Touches(piece, HeadEnd) /\ ~Touches(piece, TailEnd)

\* C5: while the match has no winner, a step that lays a piece without emptying
\* the hand, or that counts a pass without resolving the hand, moves the turn
\* from the player at index i to the player at index (i + 1) mod 4; a step that
\* changes the current player is one of these or a startHand.
C5_TurnOrder ==
    [][(engine /\ winnerTeam = "none" /\ CurIdx # -1) =>
        LET i == CurIdx
            placed == Len(board') = Len(board) + 1
            passed == passes' = passes + 1
            started == board' = <<>>
        IN /\ (placed /\ hands'[i] # {}) => cur' = ids[(i + 1) % NumPlayers]
           /\ (passed /\ passes' # 4) => cur' = ids[(i + 1) % NumPlayers]
           /\ cur' # cur => placed \/ passed \/ started]_vars

\* C5 witness: the turn has gone round by placements and passes
C5_Witness ==
    engine /\ handNumber = 1 /\ Len(board) >= 5 /\ passes = 2 /\ CurIdx = 0

\* C6: startHand with handNumber 1 leaves exactly one player holding the double
\* six, and that player is the current one.
C6_DoubleSixStarts ==
    LET e == EngineToStart
    IN (e.handNumber = 1) =>
        \A deck \in DealtDecks :
            LET e2 == StartHand(e, deck)
                holders == {i \in Seats : D6 \in e2.hands[i]}
            IN /\ Cardinality(holders) = 1
               /\ \A i \in holders : e2.cur = e2.ids[i]

\* C6 witness: the first hand has just been dealt
C6_Witness ==
    /\ engine /\ handNumber = 1 /\ board = <<>> /\ CurIdx # -1
    /\ D6 \in hands[CurIdx]
    /\ Cardinality({i \in Seats : D6 \in hands[i]}) = 1

\* C7: in hand 1, on the empty board only the double six of the current player
\* is accepted, no pass is accepted, and the timeout lays the double six; the
\* double six is on every board of hand 1 that is not empty.
C7_FirstTileDoubleSix ==
    (engine /\ handNumber = 1) =>
        /\ board # <<>> => \E k \in 1..Len(board) : board[k] = D6
        /\ board = <<>> =>
            /\ \A r \in PlaceResults : r.ok => r.e.board = <<D6>>
            /\ PlacePiece(Eng, cur, D6, "head").ok
            /\ \A id \in connected : ~PassTurn(Eng, id).ok
            /\ \A e2 \in HandleTimeout(Eng) : e2.board = <<D6>>

\* C7 witness: the double six alone on the board of hand 1
C7_Witness ==
    engine /\ handNumber = 1 /\ board = <<D6>>

\* C8: for the current player and a piece it holds, placePiece is accepted
\* exactly when isValidMove is true, that is: on an empty board, the double six
\* in hand 1 and any piece in the later hands; on a board that is not empty, a
\* piece with a face equal to the open end of the requested side.
C8_AcceptedIffValid ==
    LET e == Eng
        c == IndexOfId(e, cur)
    IN (engine /\ c # -1) =>
        \A piece \in hands[c], side \in Sides :
            LET valid == IF board = <<>>
                         THEN (handNumber = 1 => piece = D6)
                         ELSE Touches(piece, OpenEnd(side))
            IN /\ IsValidMove(e, piece, side) <=> valid
               /\ PlacePiece(e, cur, piece, side).ok <=> valid
               /\ PlacePiece(e, cur, <<piece[2], piece[1]>>, side).ok <=> valid

\* C8 witness: a later hand opened with a piece that is not the double six
C8_Witness ==
    /\ engine /\ handNumber > 1 /\ handWinnerId = NoId
    /\ Len(board) = 1 /\ board[1] # D6

\* C9: startHand leaves the board empty, the pass counter 0, handWinnerId and
\* winReason cleared, and each of the four players with 7 pieces of the
\* double-six set, no piece in two hands.
C9_StartHandDeals ==
    LET e == EngineToStart
    IN \A deck \in DealtDecks :
        LET e2 == StartHand(e, deck)
        IN /\ e2.board = <<>>
           /\ e2.passes = 0
           /\ e2.handWinnerId = NoId
           /\ e2.winReason = "none"
           /\ \A i \in Seats :
                /\ Cardinality(e2.hands[i]) = 7
                /\ e2.hands[i] \subseteq DoubleSixSet
           /\ \A i, j \in Seats : i # j => e2.hands[i] \cap e2.hands[j] = {}

\* C9 witness: a hand dealt after a resolved one
C9_Witness ==
    /\ engine /\ handNumber = 2 /\ handPoints # NoPoints
    /\ board = <<>> /\ passes = 0 /\ handWinnerId = NoId /\ winReason = "none"
    /\ \A i \in Seats : Cardinality(hands[i]) = 7

ChainValid(b) == \A k \in 1..(Len(b) - 1) : b[k][2] = b[k + 1][1]

\* C12: a step that lays a piece on a board that is not empty inserts it at
\* index 0, its second face equal to the former head, or at the end, its first
\* face equal to the former tail; the pieces already on the board keep their
\* order and orientation, the open end of the other side is unchanged, and the
\* facing values of every adjacent pair of the board are equal.
C12_ChainGrowsAtEnds ==
    [][(engine /\ board # <<>> /\ Len(board') = Len(board) + 1) =>
        LET n == Len(board)
            h == board[1][1]
            t == board[n][2]
            b2 == board'
        IN /\ \/ /\ SubSeq(b2, 2, n + 1) = board
                 /\ b2[1][2] = h
                 /\ GetOpenEnds(EngNext) = <<b2[1][1], t>>
              \/ /\ SubSeq(b2, 1, n) = board
                 /\ b2[n + 1][1] = t
                 /\ GetOpenEnds(EngNext) = <<h, b2[n + 1][2]>>
           /\ ChainValid(b2)
           /\ \E i \in Seats : hands'[i] = hands[i] \ {Norm(b2[1]), Norm(b2[n + 1])}
                               /\ hands'[i] # hands[i]]_vars

\* C12 witness: a board grown at both ends
C12_Witness ==
    /\ engine /\ handNumber = 1 /\ Len(board) >= 6
    /\ board[1] # D6 /\ board[Len(board)] # D6

\* C13: passTurn is accepted exactly when the caller is the current player and
\* holds no legal move (with pieces on the board, no piece with a face equal to
\* the head or the tail value; on the empty board, not the double six in hand
\* 1 and no piece at all in the later hands); a call that is not accepted
\* leaves every field of the engine as it was.
C13_PassOnlyWithoutMove ==
    engine =>
        LET e == Eng
        IN \A id \in connected :
            LET i == IndexOfId(e, id)
                r == PassTurn(e, id)
                legal == IF board = <<>>
                         THEN IF handNumber = 1 THEN D6 \in hands[i]
                              ELSE hands[i] # {}
                         ELSE \E p \in hands[i] :
                                Touches(p, HeadEnd) \/ Touches(p, TailEnd)
            IN /\ r.ok <=> (id = cur /\ i # -1 /\ ~legal)
               /\ ~r.ok => r.e = e

\* C13 witness: a pass was accepted in a hand that is not resolved
C13_Witness ==
    engine /\ handWinnerId = NoId /\ passes = 1 /\ Len(board) >= 2

\* The seat after the current one, to which nextTurn gives the turn
ReturnSeat == (CurIdx + 1) % NumPlayers

\* C14: when an accepted pass in a hand in progress is the third in a row and
\* the seat the turn returns to holds a legal move while its team has fewer
\* than 170 points, the team's score grows by 30, the pass counter becomes 0
\* and the turn is with that seat, with one timeout pending for it.
C14_PaseRedondoAwarded ==
    [][(/\ engine /\ handWinnerId = NoId /\ winnerTeam = "none"
        /\ passes = 2 /\ passes' # passes
        /\ board' = board /\ hands' = hands /\ handNumber' = handNumber
        /\ FindAnyValidMove(Eng, ReturnSeat) # {}
        /\ teamScores[PlayerTeam(Eng, ReturnSeat)] < PaseRedondoLimit) =>
        /\ teamScores'[PlayerTeam(Eng, ReturnSeat)]
                = teamScores[PlayerTeam(Eng, ReturnSeat)] + Bonus
        /\ passes' = 0
        /\ cur' = ids[ReturnSeat]
        /\ pending' = <<cur'>>]_vars

\* An accepted pass that is the fourth in a row
FourthPass == engine /\ passes = 3 /\ passes' = 4

\* C15: at the fourth consecutive accepted pass the pass counter is 4, the
\* hand has a winner, the reason is 'tranque', the current player is the one
\* who passed (the turn is not advanced) and no timeout is left pending.
C15_FourPassesTranque ==
    [][FourthPass =>
        /\ handWinnerId' \in {ids[i] : i \in Seats}
        /\ winReason' = "tranque"
        /\ cur' = cur
        /\ pending' = <<>> /\ timer' = NoTimer]_vars

\* C15 witness: the first hand ended by four passes
C15_Witness ==
    /\ engine /\ passes = 4 /\ winReason = "tranque"
    /\ handNumber = 2 /\ handWinnerId # NoId

\* C16: at the fourth pass the winner is the blocker (the seat four turns
\* back from the current one, which is the current one) when its hand sums to
\* strictly less than the hand of the seat after it, and the seat after it
\* otherwise; the winner's team gains the pips left in the four hands, without
\* bonus, the other team gains nothing and the reason is 'tranque'.
C16_TranqueWinner ==
    [][FourthPass =>
        LET blocker == CurIdx
            after == (blocker + 1) % NumPlayers
            winner == IF SumHand(hands[blocker]) < SumHand(hands[after])
                      THEN blocker ELSE after
            team == PlayerTeam(Eng, winner)
            total == SumHand(hands[0]) + SumHand(hands[1])
                     + SumHand(hands[2]) + SumHand(hands[3])
        IN /\ handWinnerId' = ids[winner]
           /\ winReason' = "tranque"
           /\ handPoints' = total
           /\ teamScores' = [teamScores EXCEPT ![team] = @ + total]]_vars

\* C16 witness: a tranque in which the blocker and the seat after it hold the
\* same sum, won by the seat after the blocker
C16_Witness ==
    /\ engine /\ passes = 4 /\ winReason = "tranque" /\ handNumber = 2
    /\ SumHand(hands[CurIdx]) = SumHand(hands[(CurIdx + 1) % NumPlayers])
    /\ handWinnerId = ids[(CurIdx + 1) % NumPlayers]

\* A step that resolves a hand: a placement that empties a hand, or the fourth
\* pass
Resolution ==
    \/ FourthPass
    \/ /\ engine /\ Len(board') = Len(board) + 1
       /\ \E i \in Seats : hands[i] # {} /\ hands'[i] = {}

\* C17: a step that resolves a hand sets handPoints to the pips left in the
\* four hands, plus 30 exactly when the reason is 'capicua'; the team of the
\* hand winner gains handPoints and the other team's score is unchanged.
C17_HandPoints ==
    [][Resolution =>
        LET total == SumHand(hands'[0]) + SumHand(hands'[1])
                     + SumHand(hands'[2]) + SumHand(hands'[3])
            w == IndexOfId(EngNext, handWinnerId')
            team == PlayerTeam(EngNext, w)
        IN /\ w # -1
           /\ winReason' \in {"domino", "capicua", "tranque"}
           /\ handPoints' = total + (IF winReason' = "capicua" THEN Bonus ELSE 0)
           /\ teamScores' = [teamScores EXCEPT ![team] = @ + handPoints']]_vars

\* C17 witness: a hand won by domino while the winner's partner still holds
\* pieces
C17_Witness ==
    /\ engine /\ handNumber = 2 /\ winReason = "domino" /\ board # <<>>
    /\ \E i \in Seats : /\ ids[i] = handWinnerId /\ hands[i] = {}
                          /\ hands[(i + 2) % NumPlayers] # {}
    /\ teamScores[PlayerTeam(Eng, IndexOfId(Eng, handWinnerId))] = handPoints

\* C18: when the current player lays its last piece, the reason is 'capicua'
\* and handPoints is the pips left in the hands plus 30 if the piece is not a
\* double and either its two faces equal the two open ends before the
\* placement, one face per end, or the two open ends are equal; otherwise (a
\* double, or a piece matching one of two different ends) the reason is
\* 'domino' and handPoints is the pips left in the hands.
C18_CapicuaOrDomino ==
    (engine /\ board # <<>> /\ CurIdx # -1) =>
        LET e == Eng
            c == CurIdx
            rest == SumHand(hands[(c + 1) % NumPlayers])
                    + SumHand(hands[(c + 2) % NumPlayers])
                    + SumHand(hands[(c + 3) % NumPlayers])
        IN \A raw \in RawPieces : \A side \in Sides :
            (hands[c] = {Norm(raw)}) =>
                LET r == PlacePiece(e, cur, raw, side)
                    both == /\ raw[1] # raw[2]
                            /\ \/ raw[1] = HeadEnd /\ raw[2] = TailEnd
                               \/ raw[2] = HeadEnd /\ raw[1] = TailEnd
                               \/ HeadEnd = TailEnd
                IN r.ok =>
                    /\ r.e.handWinnerId = cur
                    /\ r.e.winReason = IF both THEN "capicua" ELSE "domino"
                    /\ r.e.handPoints = rest + (IF both THEN Bonus ELSE 0)

\* C18 witness: a hand won by capicua with a piece that closed the board on
\* the value of the other end
C18_Witness ==
    /\ engine /\ handNumber = 2 /\ winReason = "capicua" /\ board # <<>>
    /\ board[1][1] = board[Len(board)][2]
    /\ \E i \in Seats : ids[i] = handWinnerId /\ hands[i] = {}
    /\ handPoints = SumHand(hands[0]) + SumHand(hands[1]) + SumHand(hands[2])
                    + SumHand(hands[3]) + Bonus

\* C19: in every step no team score decreases, and a step that resolves a
\* hand and leaves the hand winner's team with 200 points or more sets
\* winnerTeam to that team, keeps the hand number and leaves no timeout
\* pending.
C19_ScoresGrowMatchEnds ==
    [][/\ \A t \in {"A", "B"} : teamScores'[t] >= teamScores[t]
       /\ Resolution =>
            LET team == PlayerTeam(EngNext, IndexOfId(EngNext, handWinnerId'))
            IN teamScores'[team] >= TargetScore =>
                /\ winnerTeam' = team
                /\ handNumber' = handNumber
                /\ pending' = <<>> /\ timer' = NoTimer]_vars

\* C19 witness: a match won on points, right after the hand that brought the
\* team to the target
C19_Witness ==
    /\ winnerTeam # "none" /\ status = "playing"
    /\ teamScores[winnerTeam] >= TargetScore
    /\ teamScores[winnerTeam] - handPoints < TargetScore
    /\ handWinnerId # NoId /\ pending = <<>>

\* C20: in a step taken when winnerTeam is set no hand is dealt (no hand
\* gains a piece, the board is not emptied) and no timeout is armed.
C20_MatchResolvedTerminal ==
    [][winnerTeam # "none" =>
        /\ \A i \in Seats : hands'[i] \subseteq hands[i]
        /\ Len(board') >= Len(board)
        /\ pending' = <<>> \/ pending' = pending]_vars

\* C21: a step that lays a piece leaves consecutivePasses at 0, and no step
\* leaves consecutivePasses above 4.
C21_PassCounterBounded ==
    [][/\ (engine /\ Len(board') = Len(board) + 1) => passes' = 0
       /\ passes' <= 4]_vars

\* The current player holds a piece it may lay
HasLegalMove ==
    IF board = <<>>
    THEN IF handNumber = 1 THEN D6 \in hands[CurIdx] ELSE hands[CurIdx] # {}
    ELSE \E p \in hands[CurIdx] : Touches(p, HeadEnd) \/ Touches(p, TailEnd)

\* The oldest pending timeout is the one of the current player, no match
\* winner is set
TimerOfCurrent ==
    /\ engine /\ winnerTeam = "none" /\ CurIdx # -1
    /\ pending # <<>> /\ Head(pending) = cur

\* C22: when the timeout of the player who is still current expires and no
\* match winner is set, the callback lays one piece of that player on a
\* matching end if the player has a legal move and otherwise counts a pass for
\* it; after it the hand has a winner or the turn is with another player (the
\* next seat when the hand was not resolved before and is not resolved after).
C22_TimeoutActs ==
    TimerOfCurrent =>
        LET e == Eng
            i == CurIdx
        IN \A e2 \in TimerCallback(e) :
            /\ IF HasLegalMove
               THEN /\ Len(e2.board) = Len(board) + 1
                    /\ ChainValid(e2.board)
                    /\ e2.hands[i] \subseteq hands[i]
                    /\ Cardinality(e2.hands[i]) = Cardinality(hands[i]) - 1
                    /\ e2.passes = 0
               ELSE /\ e2.board = board /\ e2.hands = hands
                    /\ e2.passes = passes + 1
            /\ e2.handWinnerId # NoId \/ e2.cur # cur
            /\ e2.handWinnerId = NoId => e2.cur = ids[(i + 1) % NumPlayers]

\* C22 witness: timeouts have played and then passed for a player, and the
\* timeout of the next player, who has no legal move either, is pending
C22_Witness ==
    /\ TimerOfCurrent /\ handWinnerId = NoId
    /\ ~HasLegalMove /\ passes = 1 /\ Len(board) >= 3

\* C23: when startHand restarts a hand won by the one player with an empty
\* hand and that player is still in the room, the opening turn goes to that
\* player, whatever connections the player has had since the win.
C23_WinnerOpens ==
    [][(/\ engine /\ winnerTeam = "none"
        /\ handWinnerId # NoId /\ winReason \in {"domino", "capicua"}
        /\ board # <<>> /\ board' = <<>> /\ handWinnerId' = NoId) =>
        \A w \in Seats :
            (/\ hands[w] = {}
             /\ \A j \in Seats \ {w} : hands[j] # {}
             /\ w \in roomPlayers) => cur' = ids'[w]]_vars

\* C26: while the room has players (it is removed from the directory when
\* the last one leaves), hostId is the id of one of them.
C26_HostIsMember ==
    roomPlayers # {} => hostId \in {ids[i] : i \in roomPlayers}

\* The connection of a room player closes while the room is playing
Drops(s) ==
    /\ s \in connected /\ s \notin connected'
    /\ status = "playing" /\ \E i \in roomPlayers : ids[i] = s

\* The player at index i gets a new socket id
Rejoins(i) == engine /\ ids'[i] # ids[i]

\* The oldest 2-minute timeout expires
GraceEnds == grace # <<>> /\ grace' = Tail(grace)

\* C29: a drop while the room is playing changes neither the players (ids,
\* positions, hands, scores) nor the board, the turn or the team scores and
\* adds the socket id to disconnectedPlayers; a join_room that gives player i
\* a new socket id finds its old id in disconnectedPlayers, changes nothing
\* but that id, removes the entry and the new connection is open; the expiry
\* of a 2-minute timeout whose socket id is no longer in disconnectedPlayers
\* changes neither the status, the match winner nor the players of the room.
C29_DropKeepsSeat ==
    [][/\ \A s \in connected :
            Drops(s) => /\ EngNext = Eng
                        /\ roomPlayers' = roomPlayers /\ status' = status
                        /\ disconnected' = disconnected \cup {s}
       /\ \A i \in Seats :
            Rejoins(i) => /\ ids[i] \in disconnected
                          /\ ids' = [ids EXCEPT ![i] = ids'[i]]
                          /\ [EngNext EXCEPT !.ids = ids] = Eng
                          /\ roomPlayers' = roomPlayers /\ status' = status
                          /\ ids'[i] \in connected'
                          /\ disconnected' = disconnected \ {ids[i]}
       /\ (GraceEnds /\ Head(grace).id \notin disconnected) =>
            /\ status' = status /\ winnerTeam' = winnerTeam
            /\ roomPlayers' = roomPlayers]_vars

\* C29 witness: a player dropped after the first hand was scored, came back
\* on a new connection, and its 2-minute timeout has expired without forfeit
C29_Witness ==
    /\ status = "playing" /\ winnerTeam = "none" /\ grace = <<>>
    /\ disconnected = {} /\ roomPlayers = Seats
    /\ \E i \in Seats : ids[i] = NumPlayers + 1
    /\ teamScores["A"] + teamScores["B"] > 0

\* C30: when a 2-minute timeout expires and its socket id is still in
\* disconnectedPlayers, the room becomes finished and the match winner is the
\* team the dropped player is not in, whatever the team scores are.
C30_ForfeitAfterGrace ==
    [][(GraceEnds /\ Head(grace).id \in disconnected) =>
        /\ status' = "finished"
        /\ winnerTeam' \in {"A", "B"}
        /\ winnerTeam' # TeamOfPosition(pos[Head(grace).player])
        /\ teamScores' = teamScores]_vars

\* C30 witness: a forfeit that gives the match to the team with fewer points
C30_Witness ==
    /\ status = "finished" /\ winnerTeam # "none"
    /\ \E t \in {"A", "B"} : teamScores[winnerTeam] < teamScores[t]

\* The positions of the players of a room
Positions(room) == {room.players[j].position : j \in 1..Len(room.players)}

\* The players of a room that are in a team
TeamPlayers(room, t) ==
    {j \in 1..Len(room.players) : TeamOfPosition(room.players[j].position) = t}

\* C24: in every room of the directory with four players, the players have
\* the positions 0, 1, 2, 3, one each, two of them in team A (positions 0 and
\* 2) and two in team B (positions 1 and 3); a room whose players are the
\* first sockets that joined, in join order, has them at positions 0, 2, 1, 3.
C24_FourSeatsDistinct ==
    \A k \in 1..Len(rooms) :
        /\ Len(rooms[k].players) = 4 =>
              /\ Positions(rooms[k]) = 0..3
              /\ Cardinality(TeamPlayers(rooms[k], "A")) = 2
              /\ Cardinality(TeamPlayers(rooms[k], "B")) = 2
        /\ (online = Clients /\ ~rooms[k].engine) =>
              \A j \in 1..Len(rooms[k].players) :
                  rooms[k].players[j].position = JoinPosition(j - 1)

\* The requests joinRoom can get: every socket, every room id the directory
\* ever holds and one it never holds
AnyRoomId == 1..(MaxRooms + 1)

\* joinRoom has to reject the request
NotJoinable(rs, roomId) ==
    \/ GetRoom(rs, roomId) = 0
    \/ /\ GetRoom(rs, roomId) # 0
       /\ \/ rs[GetRoom(rs, roomId)].status \notin {"waiting", "matchmaking"}
          \/ Len(rs[GetRoom(rs, roomId)].players) >= 4

C27_StartNeedsFour ==
    /\ [](\A c \in Clients, roomId \in RoomIds :
            (/\ GetRoom(rooms, roomId) # 0
             /\ \/ rooms[GetRoom(rooms, roomId)].hostId # c
                \/ Len(rooms[GetRoom(rooms, roomId)].players) < 4)
            => startGame(rooms, c, roomId) = rooms)
    /\ [][\A roomId \in RoomIds :
            LET k == GetRoom(rooms, roomId)
                l == GetRoom(rooms', roomId)
            IN (/\ k # 0 /\ l # 0
                /\ \/ ~rooms[k].engine /\ rooms'[l].engine
                   \/ rooms[k].status # "playing"
                      /\ rooms'[l].status = "playing")
               => /\ Len(rooms'[l].players) = 4
                  /\ rooms'[l].engine /\ rooms'[l].status = "playing"]_vars

\* C27 witness: a room that is playing while another socket is connected and
\* the host of a room with three players has asked to start
C27_Witness ==
    \E k \in 1..Len(rooms) :
        /\ rooms[k].status = "playing" /\ rooms[k].engine
        /\ Len(rooms[k].players) = 4
        /\ \E c \in online : ~IsPlayer(rooms[k], c)

\* The room with this id is in the directory, in matchmaking status
Matchmaking(roomId) ==
    /\ GetRoom(rooms, roomId) # 0
    /\ rooms[GetRoom(rooms, roomId)].status = "matchmaking"

\* A check of the room ends in this step
CheckEnds(roomId) == checks'[roomId] < checks[roomId]

MatchResolution == engine /\ winnerTeam = "none" /\ winnerTeam' # "none"

\* A step that arms a turn timer: a timeout is pending that was not before
Arming ==
    /\ pending' # <<>>
    /\ \/ Len(pending') > Len(pending)
       \/ pending # <<>> /\ pending'[Len(pending')] # pending[Len(pending)]

HandResolved == engine /\ handWinnerId # NoId /\ winnerTeam = "none"

\* C34: while a hand is resolved and the match is not won, placePiece and
\* passTurn return false for every player and every piece and no turn
\* timeout is pending, so that only startHand changes the engine.
C34_ResolvedHandFrozen ==
    HandResolved =>
        LET e == Eng
        IN /\ pending = <<>>
           /\ \A id \in connected :
                 /\ ~PassTurn(e, id).ok
                 /\ \A raw \in RawPieces, side \in Sides :
                       ~PlacePiece(e, id, raw, side).ok

\* C37: once gameState.winnerTeam is set no step changes it.
C37_WinnerFinal ==
    [][(engine /\ winnerTeam # "none") => winnerTeam' = winnerTeam]_vars

\* A hand is in progress in a room that is playing
HandInProgress ==
    engine /\ status = "playing" /\ handWinnerId = NoId /\ winnerTeam = "none"

\* A pending turn timeout whose callback will place or pass
TimerWillAct ==
    /\ CurIdx # -1
    /\ \E k \in 1..Len(pending) : pending[k] = cur

\* An open connection whose placePiece or passTurn is accepted
ClientCanAct ==
    LET e == Eng
    IN \E id \in connected :
         \/ PassTurn(e, id).ok
         \/ \E raw \in RawPieces, side \in Sides : PlacePiece(e, id, raw, side).ok

\* C38: in every state of a hand in progress either a turn timeout is pending
\* that will act for the current player or some connected client has an
\* acceptable move or pass, so that the timer alone brings the hand to its
\* resolution.
C38_HandNeverStuck == HandInProgress => (TimerWillAct \/ ClientCanAct)

\* The status changes of a room the lifecycle has
StatusMoves ==
    {<<"waiting", "matchmaking">>, <<"matchmaking", "playing">>,
     <<"playing", "finished">>, <<"matchmaking", "waiting">>,
     <<"waiting", "playing">>}

\* C40: in every step a room of the directory keeps its status or makes one
\* of the moves waiting to matchmaking, matchmaking to playing, playing to
\* finished, matchmaking to waiting, waiting to playing; a room that is
\* playing is never waiting or in matchmaking afterwards.
C40_StatusMoves ==
    [][\A roomId \in RoomIds :
        LET k == GetRoom(rooms, roomId)
            l == GetRoom(rooms', roomId)
        IN (k # 0 /\ l # 0 /\ rooms'[l].status # rooms[k].status) =>
              <<rooms[k].status, rooms'[l].status>> \in StatusMoves]_vars

\* The rooms of the directory the socket is a player of
RoomsOf(c) == {k \in 1..Len(rooms) : IsPlayer(rooms[k], c)}

\* The socket is in the matchmaking queue
Queued(c) == \E j \in 1..Len(matchmakingQueue) : matchmakingQueue[j] = c

\* C39: a socket id is a player of at most one room of the directory, and a
\* socket id that is a player of a room is not in the matchmaking queue.
C39_OneRoomPerSocket ==
    \A c \in Clients :
        /\ Cardinality(RoomsOf(c)) <= 1
        /\ RoomsOf(c) # {} => ~Queued(c)

\* trancadorIdx of handleTranque at the fourth pass
TrancadorIdx == (CurIdx - 4 + NumPlayers) % NumPlayers

\* C33: at every fourth consecutive pass, the player handleTranque takes as
\* the one who blocked (four places back from the current player) is the
\* player of the last accepted placePiece of the hand.
C33_BlockerPlacedLast ==
    [][FourthPass => (lastPlacer # -1 /\ TrancadorIdx = lastPlacer)]_vars

\* A step in which startNextHand runs engine.startHand(): the ready round is
\* closed by the last player_ready or by a 15-second timeout
NextHandStep ==
    /\ engine
    /\ readyPlayers' = {}
    /\ readyPlayers # {} \/ Len(readyTimers') < Len(readyTimers)

\* C35: startNextHand deals a hand only when the hand before it is resolved;
\* a player_ready received during a hand in progress, and the 15-second
\* timeout it starts, do not clear and deal again the board and the hands.
C35_DealOnlyWhenResolved ==
    [][NextHandStep => handWinnerId # NoId]_vars

\* C36: a room has at most one 15-second next-hand timeout pending, whatever
\* player_ready events arrive (the same player's again included), and none is
\* pending once the round is closed and the next hand started, so that none
\* left from an earlier round fires later.
C36_OneNextHandTimer ==
    /\ Len(readyTimers) <= 1
    /\ readyPlayers = {} => readyTimers = <<>>

\* C32: a room has at most one turn timeout pending over all the engines it
\* had, and a step that changes the players' hands is not a step of an
\* engine that is no longer room.engine.
C32_OneTurnTimerPerRoom ==
    /\ [](Len(pending) + Len(replaced.pending) <= 1)
    /\ [][(hands' # hands /\ replaced # NoEngine) => replaced' = replaced]_vars

====
